---- MODULE Spec2Model ----
(***************************************************************************)
(* The scanner of the WebAssembly text front end (package text, lex.go).   *)
(*                                                                         *)
(* The input is a sequence of bytes (0..255).  The lexer is the struct of  *)
(* lex.go: pos, start, width, state and the buffered token channel.  One   *)
(* step of the model is one iteration of the for/select loop of            *)
(* lexer.nextToken: a receive from the channel (which returns a token to   *)
(* the caller), the close of the channel, or one invocation of the current *)
(* state function.  lexBlockComment is the one state function whose loop   *)
(* need not terminate, so it is stepped one loop iteration at a time.      *)
(*                                                                         *)
(* Above the scanner stand Parser.Parse, which calls nextToken until the   *)
(* first end-of-input or error token, the global node counter idCounter,   *)
(* and Runtime.ExecFile, which reads a file and parses it.  Three          *)
(* specifications share the definitions:                                   *)
(*   Spec       one lexer whose caller calls nextToken again and again;    *)
(*   ParseSpec  one call of ExecFile, driving Parse and its lexer;         *)
(*   ConcSpec   two Parsers in one process, each with a private lexer.     *)
(***************************************************************************)
EXTENDS Integers, Sequences, FiniteSets, TLC

VARIABLES
    input,      \* lexer.input: the bytes being scanned
    pos,        \* lexer.pos (0-based offset into input)
    start,      \* lexer.start
    width,      \* lexer.width
    state,      \* lexer.state: the name of the next state function, or "nil"
    tokens,     \* lexer.tokens: the tokens buffered in the channel
    closed,     \* whether close(l.tokens) has run
    level,      \* the local `level` of a running lexBlockComment, 0 when none runs
    out,        \* the tokens nextToken has returned to its caller, in order
    drained,    \* number of tokens received from the closed channel
    idCounter,  \* var idCounter: the process-wide node counter
    par,        \* the Parsers: where each stands in Parse, its root, its result
    exec        \* the call of Runtime.ExecFile: its file, where it stands, its result

\* the variables of the lexer, and those of the parser and the runtime
lvars == <<input, pos, start, width, state, tokens, closed, level, out, drained>>
pvars == <<idCounter, par, exec>>
vars == <<input, pos, start, width, state, tokens, closed, level, out, drained,
          idCounter, par, exec>>

----------------------------------------------------------------------------
(* Bounds of the model.                                                    *)

\* longest input of the structural family (parentheses, comments, keywords)
MaxLen == 5
\* number of pieces that follow the opening quote in the string family
MaxStrPieces == 2
\* longest input of the number / identifier family
MaxNumLen == 3
\* nextToken calls that are answered by the closed channel
MaxClosedReads == 2
\* longest body of the block comments that hold only delimiter bytes
MaxNestLen == 5
\* longest input of the family of identifiers after comments
MaxIdLen == 5
\* longest input of the files ExecFile parses, the examples of the text apart
MaxParseLen == 3
\* longest input of the two Parsers that share a process
MaxConcLen == 1

----------------------------------------------------------------------------
(* Token kinds: the iota constants of lex.go, by value.                    *)

tokenError == 0
tokenEOF == 1
tokenLParen == 2
tokenRParen == 3
tokenIdent == 4
tokenNumber == 5
tokenString == 6
tokenKeyword == 12
tokenFunc == 15
tokenIf == 20
tokenI32Const == 98
tokenI32Add == 132

\* const eof
eof == 0
\* utf8.RuneError (U+FFFD), the rune utf8.DecodeRune gives for an invalid byte
RuneError == 65533
(* The bytes the scanner tests for.                                        *)
chTab == 9
chNL == 10
chCR == 13
chSpace == 32
chQuote == 34
chDollar == 36
chApostrophe == 39
chLParen == 40
chRParen == 41
chPlus == 43
chMinus == 45
chDot == 46
chZero == 48
chSemi == 59
chBackslash == 92
chUnderscore == 95
chLBrace == 123
chRBrace == 125

\* const digit, letter, symbol, sign, keyword, idChar, hexDigit
digit == 48..57
letter == (97..122) \cup (65..90)
symbol == {33, 35, 36, 37, 38, 39, 42, 43, 45, 46, 47, 58, 60, 61, 62, 63,
           64, 92, 94, 95, 96, 124, 126}
sign == {chPlus, chMinus}
keyword == letter \cup digit \cup {95, 46, 58, 61}
idChar == digit \cup letter \cup symbol
hexDigit == digit \cup (97..102) \cup (65..70)

isLowercaseLetter(r) == r >= 97 /\ r <= 122
isHexDigit(r) == r \in hexDigit
isSpace(r) == r = chSpace \/ r = chNL \/ r = chTab \/ r = chCR

(* token{kind, val}.  The val of an error token is a formatted diagnostic; *)
(* the model keeps its format string in msg and leaves val empty.          *)
Tok(kind, val) == [kind |-> kind, val |-> val, msg |-> ""]
ErrTok(msg) == [kind |-> tokenError, val |-> <<>>, msg |-> msg]
\* the zero value token{}, which a receive from a closed channel yields
ZeroToken == [kind |-> 0, val |-> <<>>, msg |-> ""]

(* var key: the keyword table.  Listed are the entries spelled with the    *)
(* keyword bytes of the model's alphabets (a e f i n p t x 0 1 .) and the  *)
(* keywords of the example texts (func, i32.const, i32.add); no lexeme of  *)
(* a model input can equal any other entry of the table.                   *)
key == { << <<105, 102>>, tokenIf >>,
         << <<102, 117, 110, 99>>, tokenFunc >>,
         << <<105, 51, 50, 46, 99, 111, 110, 115, 116>>, tokenI32Const >>,
         << <<105, 51, 50, 46, 97, 100, 100>>, tokenI32Add >> }

InKey(s) == \E e \in key : e[1] = s
KeyKind(s) == (CHOOSE e \in key : e[1] = s)[2]

----------------------------------------------------------------------------
(* unicode/utf8 and strconv as lex.go uses them.                           *)

\* utf8.DecodeRune(inp[p:]) for p < len(inp): the rune and its width
DecodeRune(inp, p) ==
    LET n  == Len(inp) - p
        b0 == inp[p + 1]
        b1 == inp[p + 2]
        b2 == inp[p + 3]
        b3 == inp[p + 4]
        bad == [r |-> RuneError, w |-> 1]
        sz == IF b0 \in 194..223 THEN 2
              ELSE IF b0 \in 224..239 THEN 3
              ELSE IF b0 \in 240..244 THEN 4
              ELSE 0
        lo == IF b0 = 224 THEN 160 ELSE IF b0 = 240 THEN 144 ELSE 128
        hi == IF b0 = 237 THEN 159 ELSE IF b0 = 244 THEN 143 ELSE 191
    IN  IF b0 < 128 THEN [r |-> b0, w |-> 1]
        ELSE IF sz = 0 THEN bad
        ELSE IF n < sz THEN bad
        ELSE IF ~(b1 \in lo..hi) THEN bad
        ELSE IF sz = 2 THEN [r |-> (b0 % 32) * 64 + (b1 % 64), w |-> 2]
        ELSE IF ~(b2 \in 128..191) THEN bad
        ELSE IF sz = 3
             THEN [r |-> (b0 % 16) * 4096 + (b1 % 64) * 64 + (b2 % 64), w |-> 3]
        ELSE IF ~(b3 \in 128..191) THEN bad
        ELSE [r |-> (b0 % 8) * 262144 + (b1 % 64) * 4096 + (b2 % 64) * 64
                    + (b3 % 64),
              w |-> 4]

\* string(rune(v)) and strings.Builder.WriteRune(r): the UTF-8 encoding of r,
\* and that of U+FFFD when r is no valid code point
EncodeRune(r) ==
    IF r < 0 \/ r > 1114111 \/ r \in 55296..57343 THEN <<239, 191, 189>>
    ELSE IF r <= 127 THEN <<r>>
    ELSE IF r <= 2047 THEN <<192 + (r \div 64), 128 + (r % 64)>>
    ELSE IF r <= 65535
         THEN <<224 + (r \div 4096), 128 + ((r \div 64) % 64), 128 + (r % 64)>>
    ELSE <<240 + (r \div 262144), 128 + ((r \div 4096) % 64),
           128 + ((r \div 64) % 64), 128 + (r % 64)>>

\* the value of one hex digit
HexVal(c) == IF c \in digit THEN c - 48
             ELSE IF c \in 97..102 THEN c - 87
             ELSE c - 55

RECURSIVE HexValue(_, _)
HexValue(s, acc) ==
    IF s = <<>> THEN acc ELSE HexValue(Tail(s), acc * 16 + HexVal(Head(s)))

\* v, _ := strconv.ParseUint(s, 16, 16): the value of the hex digits s, the
\* largest 16-bit value when it does not fit 16 bits, 0 for no digits
ParseUint16(s) ==
    LET v == HexValue(s, 0) IN IF v > 65535 THEN 65535 ELSE v

----------------------------------------------------------------------------
(* The lexer's methods.  l is the record [pos, start, width, tokens].      *)

next(inp, l) ==
    IF l.pos >= Len(inp)
    THEN [l |-> [l EXCEPT !.width = 0], r |-> eof]
    ELSE LET d == DecodeRune(inp, l.pos)
         IN  [l |-> [l EXCEPT !.width = d.w, !.pos = l.pos + d.w], r |-> d.r]

\* an ignore that sets start one byte too far
ignoreAhead(l) == [l EXCEPT !.start = l.pos + 1]

ignore(l) == [l EXCEPT !.start = l.pos]

backup(l) == [l EXCEPT !.pos = l.pos - l.width]

peek(inp, l) ==
    LET n == next(inp, l)
    IN  [l |-> [backup(n.l) EXCEPT !.width = l.width], r |-> n.r]

lexeme(inp, l) == SubSeq(inp, l.start + 1, l.pos)

emit(inp, l, kind) ==
    [l EXCEPT !.tokens = Append(@, Tok(kind, SubSeq(inp, l.start + 1, l.pos))),
              !.start = l.pos]

emitWithData(l, kind, data) ==
    [l EXCEPT !.tokens = Append(@, Tok(kind, data)), !.start = l.pos]

\* an accept that takes nothing
acceptNone(inp, l, valid) == [l |-> l, ok |-> FALSE]

accept(inp, l, valid) ==
    LET n == next(inp, l)
    IN  IF n.r \in valid THEN [l |-> n.l, ok |-> TRUE]
        ELSE [l |-> backup(n.l), ok |-> FALSE]

RECURSIVE acceptRunFrom(_, _, _, _)
acceptRunFrom(inp, l, valid, count) ==
    LET n == next(inp, l)
    IN  IF n.r \in valid THEN acceptRunFrom(inp, n.l, valid, count + 1)
        ELSE [l |-> backup(n.l), count |-> count]

acceptRun(inp, l, valid) == acceptRunFrom(inp, l, valid, 0)

\* what a state function leaves: the lexer and the state function it returns
Ret(l, fn) == [l |-> l, state |-> fn]

errorf(l, msg) == Ret([l EXCEPT !.tokens = Append(@, ErrTok(msg))], "nil")

----------------------------------------------------------------------------
(* The state functions.                                                    *)

RECURSIVE lexDefault(_, _)
lexDefault(inp, l) ==
    LET n == next(inp, l)
        r == n.r
        l1 == n.l
    IN  IF r = eof THEN Ret(emit(inp, l1, tokenEOF), "nil")
        ELSE IF isSpace(r) THEN lexDefault(inp, ignore(l1))
        ELSE IF r = chSemi THEN Ret(l1, "lexComment")
        ELSE IF r = chPlus \/ r = chMinus \/ (chZero <= r /\ r <= 57)
             THEN Ret(backup(l1), "lexNumber")
        ELSE IF r = chDollar THEN Ret(backup(l1), "lexIdentifier")
        ELSE IF r = chQuote THEN Ret(l1, "lexString")
        ELSE IF r = chLParen
             THEN LET p == peek(inp, l1)
                  IN  IF p.r = chSemi THEN Ret(p.l, "lexBlockComment")
                      ELSE Ret(emit(inp, p.l, tokenLParen), "lexDefault")
        ELSE IF r = chRParen THEN Ret(emit(inp, l1, tokenRParen), "lexDefault")
        ELSE IF isLowercaseLetter(r) THEN Ret(backup(l1), "lexKeyword")
        ELSE errorf(l1, "unknown token: %q")

\* lexBlockComment up to its loop: level := 1; l.accept(";")
lexBlockCommentEnter(inp, l) == accept(inp, l, {chSemi}).l

\* one iteration of `for level > 0`: the lexer and the level it leaves
lexBlockCommentIter(inp, l, lvl) ==
    LET n == next(inp, l)
        p == peek(inp, n.l)
    IN  IF n.r = chLParen
        THEN [l |-> p.l, level |-> IF p.r = chSemi THEN lvl + 1 ELSE lvl]
        ELSE IF n.r = chSemi
        THEN [l |-> p.l, level |-> IF p.r = chRParen THEN lvl - 1 ELSE lvl]
        ELSE [l |-> n.l, level |-> lvl]

lexNumber(inp, l) ==
    LET l1 == accept(inp, l, sign).l
        a0 == accept(inp, l1, {chZero})
        ax == accept(inp, a0.l, {120, 88})
        hex == a0.ok /\ ax.ok
        l2 == IF a0.ok THEN ax.l ELSE a0.l
        valid == (IF hex THEN hexDigit ELSE digit) \cup {chUnderscore}
        l3 == acceptRun(inp, l2, valid).l
        dot == accept(inp, l3, {chDot})
        l4 == IF dot.ok THEN acceptRun(inp, dot.l, valid).l ELSE dot.l
        ex == accept(inp, l4, {101, 69, 112, 80})
        l5 == IF ex.ok
              THEN acceptRun(inp, accept(inp, ex.l, sign).l,
                             digit \cup {chUnderscore}).l
              ELSE ex.l
    IN  Ret(emit(inp, l5, tokenNumber), "lexDefault")

lexKeyword(inp, l) ==
    LET l1 == acceptRun(inp, l, keyword).l
    IN  IF InKey(lexeme(inp, l1))
        THEN Ret(emit(inp, l1, KeyKind(lexeme(inp, l1))), "lexDefault")
        ELSE Ret(emit(inp, l1, tokenKeyword), "lexDefault")

RECURSIVE lexCommentLoop(_, _)
lexCommentLoop(inp, l) ==
    LET n == next(inp, l)
    IN  IF n.r = eof \/ n.r = chNL THEN n.l ELSE lexCommentLoop(inp, n.l)

lexComment(inp, l) ==
    LET a == accept(inp, l, {chSemi})
    IN  IF ~a.ok THEN errorf(next(inp, a.l).l, "expected ';' but got: %q")
        ELSE Ret(lexCommentLoop(inp, a.l), "lexDefault")

lexIdentifier(inp, l) ==
    LET a == acceptRun(inp, l, idChar)
    IN  IF a.count < 2 THEN errorf(a.l, "empty identifier")
        ELSE Ret(emit(inp, a.l, tokenIdent), "lexDefault")

\* the digits of \u{...}: for i := 0; i < 7; i++
RECURSIVE unicodeDigits(_, _, _, _)
unicodeDigits(inp, l, s, i) ==
    IF i >= 7 THEN [l |-> l, s |-> s, err |-> FALSE]
    ELSE LET n == next(inp, l)
         IN  IF n.r = chRBrace THEN [l |-> backup(n.l), s |-> s, err |-> FALSE]
             ELSE IF n.r = eof THEN [l |-> n.l, s |-> s, err |-> TRUE]
             ELSE IF ~isHexDigit(n.r) THEN [l |-> n.l, s |-> s, err |-> TRUE]
             ELSE unicodeDigits(inp, n.l, Append(s, n.r), i + 1)

\* an escapeSeq that takes any character after the backslash as itself
escapeSeqAny(inp, l) ==
    LET n == next(inp, l)
    IN  [l |-> n.l, s |-> EncodeRune(n.r), err |-> FALSE]

\* escapeSeq: the lexer, the decoded string and whether an error is returned
escapeSeq(inp, l) ==
    LET n == next(inp, l)
        r == n.r
        good(l1, s) == [l |-> l1, s |-> s, err |-> FALSE]
        fail(l1) == [l |-> l1, s |-> <<>>, err |-> TRUE]
    IN  IF r = 116 THEN good(n.l, <<chTab>>)
        ELSE IF r = 114 THEN good(n.l, <<chCR>>)
        ELSE IF r = chQuote THEN good(n.l, <<chQuote>>)
        ELSE IF r = chApostrophe THEN good(n.l, <<chApostrophe>>)
        ELSE IF r = chBackslash THEN good(n.l, <<chBackslash>>)
        ELSE IF isHexDigit(r)
             THEN LET n2 == next(inp, n.l)
                  IN  IF n2.r # eof /\ isHexDigit(n2.r)
                      THEN good(n2.l, EncodeRune(ParseUint16(<<r, n2.r>>)))
                      ELSE fail(n2.l)
        ELSE IF r = 117
             THEN LET a == accept(inp, n.l, {chLBrace})
                      d == unicodeDigits(inp, a.l, <<>>, 0)
                      c == accept(inp, d.l, {chRBrace})
                  IN  IF ~a.ok THEN fail(a.l)
                      ELSE IF d.err THEN fail(d.l)
                      ELSE IF ~c.ok THEN fail(c.l)
                      ELSE good(c.l, EncodeRune(ParseUint16(d.s)))
        ELSE fail(n.l)

\* lexString with s the contents of its strings.Builder
RECURSIVE lexStringLoop(_, _, _)
lexStringLoop(inp, l, s) ==
    LET n == next(inp, l)
        r == n.r
    IN  IF r = chBackslash
        THEN LET e == escapeSeq(inp, n.l)
             IN  IF e.err THEN errorf(e.l, "invalid escape sequence: %q")
                 ELSE lexStringLoop(inp, e.l, s \o e.s)
        ELSE IF r = chQuote
        THEN Ret(emitWithData(n.l, tokenString, s), "lexDefault")
        ELSE IF r = eof \/ r = chNL \/ r = chCR
        THEN errorf(n.l, "unclosed quote: %q")
        ELSE lexStringLoop(inp, n.l, s \o EncodeRune(r))

lexString(inp, l) == lexStringLoop(inp, l, <<>>)

----------------------------------------------------------------------------
(* The inputs of the model.                                                *)

Seqs(S, n) == UNION {[1..k -> S] : k \in 0..n}

RECURSIVE Flatten(_)
Flatten(ps) == IF ps = <<>> THEN <<>> ELSE Head(ps) \o Flatten(Tail(ps))

RECURSIVE ToHex(_)
ToHex(n) ==
    LET d == n % 16
        c == IF d < 10 THEN 48 + d ELSE 87 + d
    IN  IF n < 16 THEN <<c>> ELSE Append(ToHex(n \div 16), c)

\* ( ) ; newline NUL i f
StructAlphabet == {chLParen, chRParen, chSemi, chNL, 0, 105, 102}
StructInputs == Seqs(StructAlphabet, MaxLen)

\* the byte values written as \XX and the code points written as \u{H..H}
EscBytes == {0, 65, 128, 255}
EscPoints == {65, 233, 8364, 65536, 128512, 1114111}
HexEsc(v) == <<chBackslash>> \o (IF v < 16 THEN <<chZero>> ELSE <<>>) \o ToHex(v)
UniEsc(v) == <<chBackslash, 117, chLBrace>> \o ToHex(v) \o <<chRBrace>>

\* " \ newline return NUL 0xFF a t n
StrBytes == {chQuote, chBackslash, chNL, chCR, 0, 255, 97, 116, 110}
\* \u{} with no digit, with seven and with eight: \u{}, \u{0000041}, \u{00000041}
UniDigits == {<<>>, <<48, 48, 48, 48, 48, 52, 49>>,
              <<48, 48, 48, 48, 48, 48, 52, 49>>}
UniOf(ds) == <<chBackslash, 117, chLBrace>> \o ds \o <<chRBrace>>

\* the bytes written after a backslash: t r " ' \ and n
EscChars == {116, 114, chQuote, chApostrophe, chBackslash, 110}

StrPieces == {<<b>> : b \in StrBytes}
                 \cup {<<chBackslash, c>> : c \in EscChars}
                 \cup {HexEsc(v) : v \in EscBytes}
                 \cup {UniEsc(v) : v \in EscPoints}
                 \cup {UniOf(ds) : ds \in UniDigits}
StringInputs == {<<chQuote>> \o Flatten(ps) : ps \in Seqs(StrPieces, MaxStrPieces)}

\* + 0 x 1 . e p $
NumAlphabet == {chPlus, chZero, 120, 49, chDot, 101, 112, chDollar}
NumInputs == Seqs(NumAlphabet, MaxNumLen)

\* block comments: (; and then the bytes ( ; )
NestInputs == {<<chLParen, chSemi>> \o s :
                  s \in Seqs({chLParen, chSemi, chRParen}, MaxNestLen)}

\* identifiers and line comments: ; newline $ i
IdentInputs == Seqs({chSemi, chNL, chDollar, 105}, MaxIdLen)

Inputs == StructInputs \cup StringInputs \cup NumInputs \cup NestInputs
              \cup IdentInputs

----------------------------------------------------------------------------
(* The data of the parser and the runtime.                                 *)

\* type Op: the iota constants
OpUnkown == 0
OpStart == 1
OpConst == 2
OpI32Add == 6

\* a *Node: the nil pointer, and &Node{ID, Op, Meta, Args}
NilNode == [nil |-> TRUE, ID |-> 0, Op |-> OpUnkown, Meta |-> "", Args |-> <<>>]
Node(id, op, meta, args) ==
    [nil |-> FALSE, ID |-> id, Op |-> op, Meta |-> meta, Args |-> args]

\* the Parsers of one process
Parsers == {1, 2}

(* A Parser and the position of its Parse: pc is "idle" before Parse is    *)
(* called, "newID", "store", "return" inside newID, "loop" in the token    *)
(* loop and "done" after the return; reg is the value newID has read for   *)
(* idCounter++; seen counts the tokens Parse has examined; ret is the      *)
(* error Parse returned; after records whether another Parser had already  *)
(* returned when this one was created; lex is the Parser's own lexer when  *)
(* it is not the one of the lexer variables: its fields and its state.     *)
NewLex == [l |-> [pos |-> 0, start |-> 0, width |-> 0, tokens |-> <<>>],
           state |-> "lexDefault"]

IdleParser ==
    [pc |-> "idle", inp |-> <<>>, reg |-> 0, root |-> NilNode, seen |-> 0,
     ret |-> "none", after |-> FALSE, lex |-> NewLex]

\* no call of ExecFile; read records that os.ReadFile has been called
NoExec == [impl |-> "none", ext |-> "", readable |-> FALSE, pc |-> "none",
           ret |-> "none", read |-> FALSE]

----------------------------------------------------------------------------
(* The state machine.                                                      *)

\* NewLexer(input)
Init ==
    /\ input \in Inputs
    /\ pos = 0
    /\ start = 0
    /\ width = 0
    /\ state = "lexDefault"
    /\ tokens = <<>>
    /\ closed = FALSE
    /\ level = 0
    /\ out = <<>>
    /\ drained = 0
    /\ idCounter = 0
    /\ par = [p \in Parsers |-> IdleParser]
    /\ exec = NoExec

Lx == [pos |-> pos, start |-> start, width |-> width, tokens |-> tokens]

SetLx(l) ==
    /\ pos' = l.pos
    /\ start' = l.start
    /\ width' = l.width
    /\ tokens' = l.tokens

\* make(chan token, 3): the capacity of l.tokens
chanCap == 3

\* a select whose receive is not ready on the closed channel
RunsOnClosed(fn) == tokens = <<>> /\ state = fn

\* a select that takes its default branch whether or not a token is buffered
RunsUnready(fn) == ~closed /\ state = fn

\* the default branch of the select is taken and l.state is fn
Runs(fn) == tokens = <<>> /\ ~closed /\ state = fn

\* l.state = l.state(l) for a state function that runs to its return
Run(res) ==
    /\ SetLx(res.l)
    /\ state' = res.state
    /\ UNCHANGED <<input, closed, level, out, drained>>
    /\ UNCHANGED pvars

\* case token := <-l.tokens: return token
Receive ==
    /\ tokens # <<>>
    /\ out' = Append(out, Head(tokens))
    /\ tokens' = Tail(tokens)
    /\ UNCHANGED <<input, pos, start, width, state, closed, level, drained>>
    /\ UNCHANGED pvars

\* the same receive on the closed, empty channel: the zero token
ReceiveClosed ==
    /\ tokens = <<>>
    /\ closed
    /\ drained < MaxClosedReads
    /\ out' = Append(out, ZeroToken)
    /\ drained' = drained + 1
    /\ UNCHANGED <<input, pos, start, width, state, tokens, closed, level>>
    /\ UNCHANGED pvars

\* default: if l.state == nil { close(l.tokens); return token{kind: tokenEOF} }
Close ==
    /\ Runs("nil")
    /\ closed' = TRUE
    /\ out' = Append(out, Tok(tokenEOF, <<>>))
    /\ UNCHANGED <<input, pos, start, width, state, tokens, level, drained>>
    /\ UNCHANGED pvars

LexDefault == Runs("lexDefault") /\ Run(lexDefault(input, Lx))

LexNumber == Runs("lexNumber") /\ Run(lexNumber(input, Lx))

LexKeyword == Runs("lexKeyword") /\ Run(lexKeyword(input, Lx))

LexComment == Runs("lexComment") /\ Run(lexComment(input, Lx))

LexIdentifier == Runs("lexIdentifier") /\ Run(lexIdentifier(input, Lx))

LexString == Runs("lexString") /\ Run(lexString(input, Lx))

LexBlockCommentEnter ==
    /\ Runs("lexBlockComment")
    /\ level = 0
    /\ SetLx(lexBlockCommentEnter(input, Lx))
    /\ level' = 1
    /\ UNCHANGED <<input, state, closed, out, drained>>
    /\ UNCHANGED pvars

\* one iteration of the loop; when it leaves level = 0 the loop ends and
\* lexBlockComment returns lexDefault
LexBlockCommentIter ==
    /\ Runs("lexBlockComment")
    /\ level > 0
    /\ LET it == lexBlockCommentIter(input, Lx, level)
       IN  /\ SetLx(it.l)
           /\ level' = it.level
           /\ state' = IF it.level > 0 THEN "lexBlockComment" ELSE "lexDefault"
    /\ UNCHANGED <<input, closed, out, drained>>
    /\ UNCHANGED pvars

Next ==
    \/ Receive
    \/ ReceiveClosed
    \/ Close
    \/ LexDefault
    \/ LexNumber
    \/ LexKeyword
    \/ LexComment
    \/ LexIdentifier
    \/ LexString
    \/ LexBlockCommentEnter
    \/ LexBlockCommentIter

Spec == Init /\ [][Next]_vars

----------------------------------------------------------------------------
(* A whole scan as a function of the input: the tokens successive calls of *)
(* nextToken return until the state machine has halted and the channel is  *)
(* drained.  Defined for inputs that never reach lexBlockComment.          *)

StateFn(fn, inp, l) ==
    CASE fn = "lexDefault" -> lexDefault(inp, l)
      [] fn = "lexNumber" -> lexNumber(inp, l)
      [] fn = "lexKeyword" -> lexKeyword(inp, l)
      [] fn = "lexComment" -> lexComment(inp, l)
      [] fn = "lexIdentifier" -> lexIdentifier(inp, l)
      [] fn = "lexString" -> lexString(inp, l)

RECURSIVE ScanFrom(_, _, _, _)
ScanFrom(inp, l, fn, acc) ==
    IF l.tokens # <<>>
    THEN ScanFrom(inp, [l EXCEPT !.tokens = Tail(@)], fn, Append(acc, Head(l.tokens)))
    ELSE IF fn = "nil" THEN acc
    ELSE LET res == StateFn(fn, inp, l) IN ScanFrom(inp, res.l, res.state, acc)

Scan(inp) ==
    ScanFrom(inp, [pos |-> 0, start |-> 0, width |-> 0, tokens |-> <<>>],
             "lexDefault", <<>>)

----------------------------------------------------------------------------
(* The parser and the runtime.                                             *)

SetPar(p, r) == par' = [par EXCEPT ![p] = r]

\* p := NewParser(inp), and p.Parse() is called
StartParser(p, inp) ==
    SetPar(p, [IdleParser EXCEPT !.pc = "newID", !.inp = inp,
               !.after = \E q \in Parsers \ {p} : par[q].pc = "done"])

(* newID, as the three accesses of idCounter that `idCounter++; return     *)
(* idCounter` makes without synchronisation: the read and the write of the *)
(* increment, and the read of the return.                                  *)
NewIDLoad(p) ==
    /\ par[p].pc = "newID"
    /\ SetPar(p, [par[p] EXCEPT !.pc = "store", !.reg = idCounter])
    /\ UNCHANGED <<idCounter, exec>>
    /\ UNCHANGED lvars

NewIDStore(p) ==
    /\ par[p].pc = "store"
    /\ idCounter' = par[p].reg + 1
    /\ SetPar(p, [par[p] EXCEPT !.pc = "return"])
    /\ UNCHANGED exec
    /\ UNCHANGED lvars

\* return idCounter, and p.root = NewNode(OpStart, "", nil)
NewIDReturn(p) ==
    /\ par[p].pc = "return"
    /\ SetPar(p, [par[p] EXCEPT !.pc = "loop",
                  !.root = Node(idCounter, OpStart, "", <<NilNode>>)])
    /\ UNCHANGED <<idCounter, exec>>
    /\ UNCHANGED lvars

\* the switch without its case tokenError
parseSwitchNoError(t) ==
    IF t.kind = tokenEOF THEN "break" ELSE "continue"

\* the switch on t.kind in the loop of Parse
parseSwitch(t) ==
    IF t.kind = tokenEOF THEN "break"
    ELSE IF t.kind = tokenError THEN "return"
    ELSE "continue"

\* one turn of the loop of Parse, of the Parser p that stands as r, on the
\* token t that nextToken returned
ParseToken(p, r, t) ==
    LET sw == parseSwitch(t)
    IN  SetPar(p, [r EXCEPT
            !.seen = @ + 1,
            !.pc = IF sw = "continue" THEN "loop" ELSE "done",
            !.ret = CASE sw = "break" -> "nil"
                      [] sw = "return" -> "lexing error"
                      [] OTHER -> @])

\* src/runtime.go: ExecFile returns NotImplemented
ExecFileStub ==
    /\ exec.impl = "runtime.go"
    /\ exec.pc = "call"
    /\ exec' = [exec EXCEPT !.pc = "done", !.ret = "NotImplemented"]
    /\ UNCHANGED <<idCounter, par>>
    /\ UNCHANGED lvars

\* every extension of the model
anyExt == {".wat", ".wast", ".wasm"}

\* the extensions ExecFile hands to the text parser
textExt == {".wat", ".wast"}

\* the other ExecFile, default: return ErrNotImplemented
ExecFileDefault ==
    /\ exec.impl = "part_002"
    /\ exec.pc = "call"
    /\ exec.ext \notin textExt
    /\ exec' = [exec EXCEPT !.pc = "done", !.ret = "ErrNotImplemented"]
    /\ UNCHANGED <<idCounter, par>>
    /\ UNCHANGED lvars

\* os.ReadFile fails
ExecFileOpenError ==
    /\ exec.impl = "part_002"
    /\ exec.pc = "call"
    /\ exec.ext \in textExt
    /\ ~exec.readable
    /\ exec' = [exec EXCEPT !.pc = "done", !.ret = "error opening file",
                !.read = TRUE]
    /\ UNCHANGED <<idCounter, par>>
    /\ UNCHANGED lvars

\* p := text.NewParser(data); p.Parse()
ExecFileParse ==
    /\ exec.impl = "part_002"
    /\ exec.pc = "call"
    /\ exec.ext \in textExt
    /\ exec.readable
    /\ exec' = [exec EXCEPT !.pc = "parse", !.read = TRUE]
    /\ StartParser(1, input)
    /\ UNCHANGED idCounter
    /\ UNCHANGED lvars

\* if err := p.Parse(); err != nil { "parsing error: %v" }; return nil
ExecFileReturn ==
    /\ exec.pc = "parse"
    /\ par[1].pc = "done"
    /\ exec' = [exec EXCEPT !.pc = "done",
                !.ret = IF par[1].ret = "nil" THEN "nil" ELSE "parsing error"]
    /\ UNCHANGED <<idCounter, par>>
    /\ UNCHANGED lvars

\* Parse is inside a call of p.lex.nextToken
InNextToken == par[1].pc = "loop" /\ Len(out) = par[1].seen

\* t := p.lex.nextToken(): one iteration of the loop of nextToken
ParseNextToken == InNextToken /\ Next

\* switch t.kind, on the token the call returned
ParseExamine ==
    /\ par[1].pc = "loop"
    /\ Len(out) > par[1].seen
    /\ ParseToken(1, par[1], out[par[1].seen + 1])
    /\ UNCHANGED <<idCounter, exec>>
    /\ UNCHANGED lvars

\* bytes of the files that are parsed
ParseAlphabet == {chLParen, chRParen, chSemi, 105, 49, chDollar, chQuote}

\* (func $f) (func $f)
DupFunc == <<40, 102, 117, 110, 99, 32, 36, 102, 41, 32,
             40, 102, 117, 110, 99, 32, 36, 102, 41>>

\* i32.const 1 i32.const 2 i32.add
FlatAdd == <<105, 51, 50, 46, 99, 111, 110, 115, 116, 32, 49, 32,
             105, 51, 50, 46, 99, 111, 110, 115, 116, 32, 50, 32,
             105, 51, 50, 46, 97, 100, 100>>

\* (i32.add (i32.const 1) (i32.const 2))
FoldedAdd == <<40, 105, 51, 50, 46, 97, 100, 100, 32,
               40, 105, 51, 50, 46, 99, 111, 110, 115, 116, 32, 49, 41, 32,
               40, 105, 51, 50, 46, 99, 111, 110, 115, 116, 32, 50, 41, 41>>

ParseInputs == Seqs(ParseAlphabet, MaxParseLen) \cup {DupFunc, FlatAdd, FoldedAdd}

\* a call of ExecFile on a file of either build, readable or not
InitParse ==
    /\ input \in ParseInputs
    /\ pos = 0
    /\ start = 0
    /\ width = 0
    /\ state = "lexDefault"
    /\ tokens = <<>>
    /\ closed = FALSE
    /\ level = 0
    /\ out = <<>>
    /\ drained = 0
    /\ idCounter = 0
    /\ par = [p \in Parsers |-> IdleParser]
    /\ exec \in [impl : {"runtime.go", "part_002"},
                 ext : {".wat", ".wast", ".wasm"},
                 readable : BOOLEAN, pc : {"call"}, ret : {"none"},
                 read : {FALSE}]

NextParse ==
    \/ ExecFileStub
    \/ ExecFileDefault
    \/ ExecFileOpenError
    \/ ExecFileParse
    \/ NewIDLoad(1)
    \/ NewIDStore(1)
    \/ NewIDReturn(1)
    \/ ParseNextToken
    \/ ParseExamine
    \/ ExecFileReturn

ParseSpec == InitParse /\ [][NextParse]_vars

(* Two Parsers of one process, each with a lexer of its own, on inputs     *)
(* that never reach lexBlockComment.                                       *)
ConcInputs == Seqs({chLParen, chDot}, MaxConcLen)

InitConc ==
    /\ input = <<>>
    /\ pos = 0
    /\ start = 0
    /\ width = 0
    /\ state = "lexDefault"
    /\ tokens = <<>>
    /\ closed = FALSE
    /\ level = 0
    /\ out = <<>>
    /\ drained = 0
    /\ idCounter = 0
    /\ par = [p \in Parsers |-> IdleParser]
    /\ exec = NoExec

ConcStart(p) ==
    /\ par[p].pc = "idle"
    /\ \E inp \in ConcInputs : StartParser(p, inp)
    /\ UNCHANGED <<idCounter, exec>>
    /\ UNCHANGED lvars

\* inside p.lex.nextToken(), default: l.state = l.state(l)
ConcLex(p) ==
    /\ par[p].pc = "loop"
    /\ par[p].lex.l.tokens = <<>>
    /\ par[p].lex.state # "nil"
    /\ SetPar(p, [par[p] EXCEPT
            !.lex = StateFn(par[p].lex.state, par[p].inp, par[p].lex.l)])
    /\ UNCHANGED <<idCounter, exec>>
    /\ UNCHANGED lvars

\* nextToken returns the token it received, or tokenEOF when l.state is nil,
\* and Parse switches on t.kind
ConcToken(p) ==
    /\ par[p].pc = "loop"
    /\ \/ /\ par[p].lex.l.tokens # <<>>
          /\ ParseToken(p, [par[p] EXCEPT !.lex.l.tokens = Tail(@)],
                        Head(par[p].lex.l.tokens))
       \/ /\ par[p].lex.l.tokens = <<>>
          /\ par[p].lex.state = "nil"
          /\ ParseToken(p, par[p], Tok(tokenEOF, <<>>))
    /\ UNCHANGED <<idCounter, exec>>
    /\ UNCHANGED lvars

NextConc ==
    \E p \in Parsers :
        \/ ConcStart(p)
        \/ NewIDLoad(p)
        \/ NewIDStore(p)
        \/ NewIDReturn(p)
        \/ ConcLex(p)
        \/ ConcToken(p)

ConcSpec == InitConc /\ [][NextConc]_vars

----------------------------------------------------------------------------
(* Vocabulary of the properties.                                           *)

Kinds(ts) == [i \in 1..Len(ts) |-> ts[i].kind]

\* the state machine has halted and every token it sent has been returned
Halted == state = "nil" /\ tokens = <<>>

\* the bytes of s are all in S
AllIn(s, S) == \A i \in 1..Len(s) : s[i] \in S

\* a maximal keyword lexeme: a lower-case letter, then keyword characters
IsKeywordRun(s) == s # <<>> /\ isLowercaseLetter(s[1]) /\ AllIn(s, keyword)

\* the kind the keyword table assigns to a run, tokenKeyword when it has none
TableKind(s) == IF InKey(s) THEN KeyKind(s) ELSE tokenKeyword

\* the kinds lexKeyword emits
KeywordKinds == {tokenKeyword} \cup {e[2] : e \in key}

\* a whole line comment: ;; then bytes other than newline and NUL, then newline
IsLineComment(s) ==
    /\ Len(s) >= 3
    /\ s[1] = chSemi /\ s[2] = chSemi /\ s[Len(s)] = chNL
    /\ \A i \in 3..(Len(s) - 1) : s[i] # chNL /\ s[i] # 0

\* a whole block comment without nesting: (; then bytes other than ( and ;, then ;)
IsBlockComment(s) ==
    /\ Len(s) >= 4
    /\ s[1] = chLParen /\ s[2] = chSemi
    /\ s[Len(s) - 1] = chSemi /\ s[Len(s)] = chRParen
    /\ \A i \in 3..(Len(s) - 2) : s[i] # chLParen /\ s[i] # chSemi

\* text that holds tokens and white space only: parentheses, keywords, newlines
IsTokenText(s) == AllIn(s, {chLParen, chRParen, chNL} \cup (97..122))

\* the bytes a number lexeme is made of
numberChar == sign \cup hexDigit \cup {chUnderscore, chDot, 120, 88, 112, 80}

----------------------------------------------------------------------------
(* C1: for an input whose block comment `(;` is never closed, repeated     *)
(* calls of nextToken terminate: the scanner returns one error token after *)
(* finitely many steps and never loops for ever in lexBlockComment.        *)
(* Stated on the loop `for level > 0`: whenever an iteration of it is      *)
(* about to run, that iteration changes the lexer or the level.  An        *)
(* iteration that changes neither is repeated for ever, since the loop     *)
(* reads nothing else, and no token is ever returned.                      *)
C1_BlockCommentTerminates ==
    (Runs("lexBlockComment") /\ level > 0) =>
        LET it == lexBlockCommentIter(input, Lx, level)
        IN  it.l # Lx \/ it.level # level

(* C2: a terminated block comment is skipped without emitting a token: the *)
(* kinds of the tokens returned for A (; c ;) B are those returned for A B *)
(* (A and B token text, written here with a newline between them), so the  *)
(* `)` of the closing `;)` is never a right-parenthesis token.             *)
C2_BlockCommentSkipped ==
    Halted =>
        \A i \in 0..Len(input) : \A j \in i..Len(input) :
            LET A == SubSeq(input, 1, i)
                c == SubSeq(input, i + 1, j)
                B == SubSeq(input, j + 1, Len(input))
            IN  (IsTokenText(A) /\ IsBlockComment(c) /\ IsTokenText(B)) =>
                    Kinds(out) = Kinds(Scan(A \o <<chNL>> \o B))

(* C3: every parenthesis, number, identifier and keyword token carries as  *)
(* val exactly the bytes of its lexeme, never bytes of a comment or of     *)
(* white space that precedes it.  Stated for inputs without a NUL byte,    *)
(* which the scanner reads as the end of the input (C6).                   *)
C3_ValIsLexeme ==
    AllIn(input, 1..255) =>
        \A i \in 1..Len(out) :
            LET t == out[i]
            IN  /\ t.kind = tokenLParen => t.val = <<chLParen>>
                /\ t.kind = tokenRParen => t.val = <<chRParen>>
                /\ t.kind = tokenNumber =>
                       t.val # <<>> /\ AllIn(t.val, numberChar)
                /\ t.kind = tokenIdent =>
                       t.val # <<>> /\ t.val[1] = chDollar /\ AllIn(t.val, idChar)
                /\ t.kind \in KeywordKinds => IsKeywordRun(t.val)

(* C4: a maximal run of keyword characters that starts with a lower-case   *)
(* letter is emitted with the kind the keyword table assigns to that run,  *)
(* and as tokenKeyword only when the table has no entry for it, wherever   *)
(* the run stands: here at the start of the input, after white space, or   *)
(* directly after the newline that ends a line comment.                    *)
C4_KeywordKindFromTable ==
    \A k \in 0..Len(input) :
        LET pre == SubSeq(input, 1, k)
            run == SubSeq(input, k + 1, Len(input))
        IN  (/\ IsKeywordRun(run)
             /\ AllIn(pre, {chSpace, chNL, chTab, chCR}) \/ IsLineComment(pre)
             /\ Len(out) >= 1) =>
                out[1].kind = TableKind(run)

(* C5: a lexical error halts scanning and yields one error token: over any *)
(* number of nextToken calls at most one returned token is an error token, *)
(* and every token returned after it is end-of-input.                      *)
C5_OneErrorThenEOF ==
    /\ Cardinality({i \in 1..Len(out) : out[i].kind = tokenError}) <= 1
    /\ \A i \in 1..Len(out) : \A j \in (i + 1)..Len(out) :
           out[i].kind = tokenError => out[j].kind = tokenEOF

(* C6: the end-of-input token is emitted only when every byte has been     *)
(* consumed; a byte that starts no token, a NUL byte included, yields an   *)
(* error token and never end-of-input.  (The end-of-input that follows an  *)
(* error token is the halt of C5 and is left out.)                         *)
C6_EofOnlyAtEnd ==
    \A i \in 1..Len(out) :
        (out[i].kind = tokenEOF /\ \A j \in 1..(i - 1) : out[j].kind # tokenError)
            => pos = Len(input)

(* C7: in a string literal the escape \XX contributes exactly the one byte *)
(* 0xXX, for every value 0x00..0xFF.  Stated for the literal "\XX".        *)
C7_HexEscapeIsOneByte ==
    (/\ Len(input) = 5
     /\ input[1] = chQuote /\ input[2] = chBackslash
     /\ isHexDigit(input[3]) /\ isHexDigit(input[4])
     /\ input[5] = chQuote
     /\ Len(out) >= 1) =>
        out[1] = Tok(tokenString, <<HexVal(input[3]) * 16 + HexVal(input[4])>>)

(* C8: in a string literal the escape \u{H..H} with one to six hex digits  *)
(* contributes the UTF-8 encoding of the code point H..H, for every code   *)
(* point up to 0x10FFFF.  Stated for the literal "\u{H..H}".               *)
C8_UnicodeEscapeIsCodePoint ==
    LET H == SubSeq(input, 5, Len(input) - 2)
    IN  (/\ Len(input) >= 7
         /\ SubSeq(input, 1, 4) = <<chQuote, chBackslash, 117, chLBrace>>
         /\ SubSeq(input, Len(input) - 1, Len(input)) = <<chRBrace, chQuote>>
         /\ Len(H) \in 1..6 /\ AllIn(H, hexDigit)
         /\ HexValue(H, 0) <= 1114111 /\ ~(HexValue(H, 0) \in 55296..57343)
         /\ Len(out) >= 1) =>
            out[1] = Tok(tokenString, EncodeRune(HexValue(H, 0)))

(* C9: raw bytes of a string literal pass through unchanged: every byte    *)
(* other than backslash, double quote, newline and carriage return is the  *)
(* same single byte of the payload, bytes that are not valid UTF-8 and the *)
(* NUL byte included.  Stated for a literal of raw bytes only.             *)
C9_RawBytesPassThrough ==
    LET body == SubSeq(input, 2, Len(input) - 1)
    IN  (/\ Len(input) >= 2
         /\ input[1] = chQuote /\ input[Len(input)] = chQuote
         /\ AllIn(body, (0..255) \ {chBackslash, chQuote, chNL, chCR})
         /\ Len(out) >= 1) =>
            out[1] = Tok(tokenString, body)

(* C10: a string literal that meets a raw newline, a raw carriage return   *)
(* or the end of the input before its closing quote yields an error token  *)
(* and no string token; one closed by a quote on the same line yields one  *)
(* string token.  Stated for literals without a backslash, where the first *)
(* of quote, newline and return after the opening quote decides which.     *)
C10_StringClosedOrError ==
    LET stops == {i \in 2..Len(input) : input[i] \in {chQuote, chNL, chCR}}
        stop == IF stops = {} THEN Len(input) + 1
                ELSE CHOOSE i \in stops : \A j \in stops : i <= j
        isClosed == stop <= Len(input) /\ input[stop] = chQuote
    IN  (/\ Len(input) >= 1
         /\ input[1] = chQuote
         /\ \A i \in 2..(stop - 1) : input[i] # chBackslash
         /\ Len(out) >= 1) =>
            IF isClosed THEN out[1].kind = tokenString
            ELSE /\ out[1].kind = tokenError
                 /\ \A i \in 1..Len(out) : out[i].kind # tokenString

----------------------------------------------------------------------------
(* C11: Parse stops at the first error.  While Parse is in its loop it has *)
(* returned nothing and has examined neither an error token nor the        *)
(* end-of-input token; once it has returned, the last token it examined is *)
(* the first error or end-of-input token the scanner returned, it is the   *)
(* last token that was requested, and the result is a non-nil error        *)
(* exactly when that token is an error token and nil exactly when it is    *)
(* the end-of-input token.                                                 *)
C11_ParseStopsAtFirstError ==
    LET r == par[1]
        stops(i) == out[i].kind \in {tokenEOF, tokenError}
    IN  /\ r.pc = "loop" =>
              /\ r.ret = "none"
              /\ \A i \in 1..r.seen : ~stops(i)
        /\ r.pc = "done" =>
              /\ r.seen >= 1
              /\ Len(out) = r.seen
              /\ \A i \in 1..(r.seen - 1) : ~stops(i)
              /\ r.ret \in {"nil", "lexing error"}
              /\ r.ret = "lexing error" <=> out[r.seen].kind = tokenError
              /\ r.ret = "nil" <=> out[r.seen].kind = tokenEOF

\* Parse has returned an error on the second token or later
C11_Witness ==
    /\ par[1].pc = "done"
    /\ par[1].ret = "lexing error"
    /\ par[1].seen >= 2
    /\ exec.ret = "parsing error"

\* the Parsers whose increment of idCounter is complete
Incremented == {p \in Parsers : par[p].pc \in {"return", "loop", "done"}}

\* the Parsers that have built their root node
Rooted == {p \in Parsers : par[p].pc \in {"loop", "done"}}

(* C12: two Parsers that run Parse concurrently share no mutable state.    *)
(* In every interleaving of their steps no increment of the node counter   *)
(* is lost, so the counter equals the number of increments made, and the   *)
(* root nodes of two Parsers never carry the same ID.                      *)
C12_NoSharedMutableState ==
    /\ idCounter = Cardinality(Incremented)
    /\ \A p \in Rooted : \A q \in Rooted \ {p} : par[p].root.ID # par[q].root.ID

(* C13: parsing is deterministic and the node counter is per parse.  When  *)
(* a fresh Parser is created after another Parser of the process has       *)
(* returned, and both have parsed the same input, the two results are      *)
(* identical: the same error or nil, and the same root node, ID included.  *)
C13_SequentialParsesAgree ==
    \A p \in Parsers : \A q \in Parsers \ {p} :
        (/\ par[p].pc = "done"
         /\ par[q].pc = "done"
         /\ par[q].after
         /\ par[p].inp = par[q].inp) =>
            /\ par[q].ret = par[p].ret
            /\ par[q].root = par[p].root

\* the text reaches lexBlockComment only through the bytes (;
HasBlockOpen(s) ==
    \E i \in 1..(Len(s) - 1) : s[i] = chLParen /\ s[i + 1] = chSemi

(* Parse of a whole text: the tokens nextToken returns are those of the    *)
(* scan and then tokenEOF; the first of them that is tokenEOF or           *)
(* tokenError decides the result.                                          *)
ParseAll(inp) ==
    LET ts == Append(Scan(inp), Tok(tokenEOF, <<>>))
        first == CHOOSE i \in 1..Len(ts) :
                    /\ parseSwitch(ts[i]) # "continue"
                    /\ \A j \in 1..(i - 1) : parseSwitch(ts[j]) = "continue"
    IN  IF parseSwitch(ts[first]) = "break" THEN "nil" ELSE "lexing error"

(* C14: when ExecFile has returned for a file named .wat or .wast, its     *)
(* result is nil if the file is readable and its text parses without       *)
(* error, and a non-nil error if the file cannot be read or Parse reports  *)
(* an error.  Stated for texts without a block comment.                    *)
C14_ExecFileResult ==
    (/\ exec.pc = "done"
     /\ exec.ext \in textExt
     /\ ~HasBlockOpen(input)) =>
        exec.ret = "nil" <=> (exec.readable /\ ParseAll(input) = "nil")

\* the number of ( tokens less the number of ) tokens among the first n of ts
RECURSIVE Depth(_, _)
Depth(ts, n) ==
    IF n = 0 THEN 0
    ELSE Depth(ts, n - 1)
         + (IF ts[n].kind = tokenLParen THEN 1
            ELSE IF ts[n].kind = tokenRParen THEN -1 ELSE 0)

\* a ) with no open list, or a ( still open after the last token
Unbalanced(ts) ==
    \/ \E n \in 1..Len(ts) : Depth(ts, n) < 0
    \/ Depth(ts, Len(ts)) > 0

(* C15: parsing an input with unbalanced parentheses fails.  When Parse    *)
(* has returned and the tokens it was given hold a `)` with no open list,  *)
(* or a `(` that is still open at the end of the input, its result is a    *)
(* non-nil error.                                                          *)
C15_UnbalancedIsError ==
    (par[1].pc = "done" /\ Unbalanced(out)) => par[1].ret # "nil"

\* the tokens ( func $id begin at index i of ts
BindsFunc(ts, i) ==
    /\ i + 2 <= Len(ts)
    /\ ts[i].kind = tokenLParen
    /\ ts[i + 1].kind = tokenFunc
    /\ ts[i + 2].kind = tokenIdent

\* two function definitions of one list bind the same identifier
BindsTwice(ts) ==
    \E i \in 1..Len(ts) : \E j \in (i + 1)..Len(ts) :
        /\ BindsFunc(ts, i)
        /\ BindsFunc(ts, j)
        /\ ts[i + 2].val = ts[j + 2].val
        /\ Depth(ts, i - 1) = Depth(ts, j - 1)
        /\ \A n \in i..(j - 1) : Depth(ts, n) >= Depth(ts, j - 1)

(* C16: parsing a module that binds the same identifier twice in one       *)
(* namespace and scope fails.  When Parse has returned and the tokens it   *)
(* was given hold two function definitions of the same list with the same  *)
(* identifier, as in `(func $f) (func $f)`, its result is a non-nil error. *)
C16_DuplicateBindingIsError ==
    (par[1].pc = "done" /\ BindsTwice(out)) => par[1].ret # "nil"

(* The instruction sequence of a list of nodes: for each node that is not  *)
(* nil, the sequences of its Args from left to right and then the node's   *)
(* own Op and Meta.                                                        *)
RECURSIVE FlatNodes(_)
FlatNodes(ns) ==
    IF ns = <<>> THEN <<>>
    ELSE (IF Head(ns).nil THEN <<>>
          ELSE Append(FlatNodes(Head(ns).Args),
                      [Op |-> Head(ns).Op, Meta |-> Head(ns).Meta]))
         \o FlatNodes(Tail(ns))

\* i32.const 1; i32.const 2; i32.add
AddInstrs ==
    << [Op |-> OpConst, Meta |-> "1"], [Op |-> OpConst, Meta |-> "2"],
       [Op |-> OpI32Add, Meta |-> ""] >>

(* C17: the folded and the flat encoding of the same instruction tree      *)
(* produce the same flat instruction sequence, operands before their       *)
(* operator.  When Parse has returned for                                  *)
(* `(i32.add (i32.const 1) (i32.const 2))` or for                          *)
(* `i32.const 1 i32.const 2 i32.add`, the instruction sequence under the   *)
(* root node is i32.const 1; i32.const 2; i32.add.                         *)
C17_FoldedAndFlatAgree ==
    (par[1].pc = "done" /\ input \in {FoldedAdd, FlatAdd}) =>
        /\ par[1].ret = "nil"
        /\ FlatNodes(par[1].root.Args) = AddInstrs

\* the bytes of s from index a on
From(s, a) == SubSeq(s, a, Len(s))

\* a run of the digits ds with underscores, begun by a digit
IsDigits(s, ds) == s # <<>> /\ s[1] \in ds /\ AllIn(s, ds \cup {chUnderscore})

\* a mantissa: digits, then optionally `.` and a fraction
IsMantissa(s, ds) ==
    \E k \in 1..Len(s) :
        /\ IsDigits(SubSeq(s, 1, k), ds)
        /\ \/ k = Len(s)
           \/ /\ s[k + 1] = chDot
              /\ k + 1 = Len(s) \/ IsDigits(From(s, k + 2), ds)

\* an exponent: one of the marks, an optional sign, decimal digits
IsExponent(s, marks) ==
    /\ Len(s) >= 2
    /\ s[1] \in marks
    /\ IsDigits(IF s[2] \in sign THEN From(s, 3) ELSE From(s, 2), digit)

\* a mantissa of the digits ds with an optional exponent of the marks
IsFloat(s, ds, marks) ==
    \/ IsMantissa(s, ds)
    \/ \E k \in 1..(Len(s) - 1) :
          IsMantissa(SubSeq(s, 1, k), ds) /\ IsExponent(From(s, k + 1), marks)

\* s without its optional sign
Unsigned(s) == IF s # <<>> /\ s[1] \in sign THEN Tail(s) ELSE s

\* s begins, after an optional sign, with 0x or 0X
HexLed(s) ==
    LET b == Unsigned(s)
    IN  Len(b) >= 2 /\ b[1] = chZero /\ b[2] \in {120, 88}

\* a numeric literal of the text format
IsLiteral(s) ==
    LET b == Unsigned(s)
    IN  IF HexLed(s) THEN IsFloat(From(b, 3), hexDigit, {112, 80})
        ELSE IsFloat(b, digit, {101, 69})

(* C18: a numeric literal is scanned as exactly one number token whose val *)
(* is the whole literal, and a `p`/`P` exponent is taken only after a hex  *)
(* mantissa: an input that is one literal yields that literal as its first *)
(* token, and a number token whose val has a digit after its sign and      *)
(* holds a `p` or `P` begins, after its sign, with `0x` or `0X`.           *)
C18_NumberLiteral ==
    /\ (IsLiteral(input) /\ Len(out) >= 1) => out[1] = Tok(tokenNumber, input)
    /\ \A i \in 1..Len(out) :
          (/\ out[i].kind = tokenNumber
           /\ Unsigned(out[i].val) # <<>>
           /\ Unsigned(out[i].val)[1] \in digit
           /\ \E j \in 1..Len(out[i].val) : out[i].val[j] \in {112, 80}) =>
              HexLed(out[i].val)

(* C19: a `\u{...}` escape whose braces hold no hex digit or more than six *)
(* hex digits is malformed.  For a string literal that begins with such an *)
(* escape the first token is an error token and no string token is         *)
(* returned.                                                               *)
C19_UnicodeEscapeLength ==
    (/\ Len(input) >= 5
     /\ SubSeq(input, 1, 4) = <<chQuote, chBackslash, 117, chLBrace>>
     /\ \E c \in 5..Len(input) :
           /\ input[c] = chRBrace
           /\ AllIn(SubSeq(input, 5, c - 1), hexDigit)
           /\ c - 5 = 0 \/ c - 5 > 6
     /\ Len(out) >= 1) =>
        /\ out[1].kind = tokenError
        /\ \A i \in 1..Len(out) : out[i].kind # tokenString

(* Nesting counted per delimiter, from byte i of s at level lvl: `(;` adds *)
(* one level, `;)` removes one, each takes both of its bytes, and the      *)
(* comment ends when the level is zero.  TRUE when the input ends first.   *)
RECURSIVE StaysOpen(_, _, _)
StaysOpen(s, i, lvl) ==
    IF lvl = 0 THEN FALSE
    ELSE IF i > Len(s) THEN TRUE
    ELSE IF i < Len(s) /\ s[i] = chLParen /\ s[i + 1] = chSemi
    THEN StaysOpen(s, i + 2, lvl + 1)
    ELSE IF i < Len(s) /\ s[i] = chSemi /\ s[i + 1] = chRParen
    THEN StaysOpen(s, i + 2, lvl - 1)
    ELSE StaysOpen(s, i + 1, lvl)

(* C20: block-comment nesting is counted per delimiter and no byte belongs *)
(* to two delimiters.  For an input that begins with `(;` and, counted so, *)
(* ends before the level is back to zero, as `(;(;);)` does, the scanner   *)
(* stays in the comment: past the first byte it is in lexBlockComment and  *)
(* never returns to lexDefault.                                            *)
C20_NestingPerDelimiter ==
    (/\ Len(input) >= 2
     /\ input[1] = chLParen /\ input[2] = chSemi
     /\ StaysOpen(input, 3, 1)
     /\ pos > 0) =>
        state = "lexBlockComment"

\* the character a single-character escape stands for
EscapeOf(c) ==
    CASE c = 116 -> chTab
      [] c = 114 -> chCR
      [] c = chQuote -> chQuote
      [] c = chApostrophe -> chApostrophe
      [] c = chBackslash -> chBackslash

(* C21: a backslash in a string literal is accepted only when followed by  *)
(* `t`, `r`, `"`, `'`, `\`, two hex digits or `u{...}`.  Stated for a      *)
(* literal whose first character is a backslash, on its first token: after *)
(* one of the five single-character escapes the token is that of the same  *)
(* literal without the escape, with the one character the escape stands    *)
(* for put in front of a string token's payload; after a hex digit that is *)
(* not followed by a second one, after any other character but `u` (`n`    *)
(* included) and at the end of the input, the token is an error token, the *)
(* state machine has halted and no string token is returned.               *)
C21_EscapesAccepted ==
    (/\ Len(input) >= 2
     /\ input[1] = chQuote /\ input[2] = chBackslash
     /\ Len(out) >= 1) =>
        LET c == IF Len(input) >= 3 THEN input[3] ELSE eof
            c2 == IF Len(input) >= 4 THEN input[4] ELSE eof
            ref == Scan(<<chQuote>> \o From(input, 4))[1]
            halts == /\ out[1].kind = tokenError
                     /\ state = "nil"
                     /\ \A i \in 1..Len(out) : out[i].kind # tokenString
        IN  IF c \in {116, 114, chQuote, chApostrophe, chBackslash}
            THEN IF ref.kind = tokenString
                 THEN out[1] = Tok(tokenString, <<EscapeOf(c)>> \o ref.val)
                 ELSE out[1] = ref
            ELSE IF c \in hexDigit THEN c2 \notin hexDigit => halts
            ELSE c # 117 => halts

\* the literal "\n has yielded its error token
C21_Witness ==
    /\ Len(input) >= 3
    /\ SubSeq(input, 1, 3) = <<chQuote, chBackslash, 110>>
    /\ Len(out) >= 1
    /\ out[1].kind = tokenError

\* the literal "\t" has yielded its string token
C21_WitnessTab ==
    /\ input = <<chQuote, chBackslash, 116, chQuote>>
    /\ out = <<Tok(tokenString, <<chTab>>)>>

\* the length of the longest run of bytes of S that begins at index i of s
RECURSIVE RunLen(_, _, _)
RunLen(s, i, S) ==
    IF i <= Len(s) /\ s[i] \in S THEN 1 + RunLen(s, i + 1, S) ELSE 0

(* C22: a `$` followed by at least one identifier character is emitted as  *)
(* one identifier token that spans the `$` and the longest run of          *)
(* identifier characters, and a `$` followed by none yields the error      *)
(* token "empty identifier" and halts the scanner.  Every identifier token *)
(* is a `$` and identifier characters, and an input that begins with `$`   *)
(* yields as its first token the identifier of its longest run, or the     *)
(* error when that run is the `$` alone.                                   *)
C22_IdentifierToken ==
    /\ \A i \in 1..Len(out) :
          out[i].kind = tokenIdent =>
              /\ Len(out[i].val) >= 2
              /\ out[i].val[1] = chDollar
              /\ AllIn(out[i].val, idChar)
    /\ (Len(input) >= 1 /\ input[1] = chDollar /\ Len(out) >= 1) =>
          LET n == RunLen(input, 1, idChar)
          IN  IF n >= 2 THEN out[1] = Tok(tokenIdent, SubSeq(input, 1, n))
              ELSE out[1] = ErrTok("empty identifier") /\ state = "nil"

(* C23: ExecFile dispatches on the file extension.  For a path whose       *)
(* extension is neither .wat nor .wast the file is never read and no       *)
(* Parser is created, and the call returns the not-implemented error;      *)
(* where ExecFile dispatches (the one that reads files), a readable .wat   *)
(* or .wast file has been read and parsed when the call returns.           *)
C23_DispatchOnExtension ==
    /\ exec.ext \notin {".wat", ".wast"} =>
          /\ ~exec.read
          /\ par[1].pc = "idle"
          /\ exec.pc = "done" => exec.ret \in {"NotImplemented", "ErrNotImplemented"}
    /\ (/\ exec.impl = "part_002"
        /\ exec.ext \in {".wat", ".wast"}
        /\ exec.pc = "done") =>
          /\ exec.read
          /\ exec.readable => par[1].pc = "done"

\* ExecFile has returned for a readable file whose extension is not a text one
C23_Witness ==
    /\ exec.impl = "part_002"
    /\ exec.ext = ".wasm"
    /\ exec.readable
    /\ exec.pc = "done"
    /\ exec.ret = "ErrNotImplemented"

(* C24: the token channel never blocks its only goroutine.  At most one    *)
(* token is ever buffered, which is below the capacity of the channel, so  *)
(* every send of emit, emitWithData and errorf finds room; and the state   *)
(* machine has halted when the channel is closed, so nothing is sent on    *)
(* the closed channel.                                                     *)
C24_ChannelNeverFull ==
    /\ Len(tokens) <= 1
    /\ Len(tokens) < chanCap
    /\ closed => state = "nil"

\* a token is buffered while the state machine is still running
C24_Witness == Len(tokens) = 1 /\ state = "lexDefault" /\ pos < Len(input)

(* C25: end-of-input is sticky.  Once nextToken has returned an            *)
(* end-of-input token, every token a later call returns is an              *)
(* end-of-input token too.                                                 *)
C25_EofIsSticky ==
    \A i \in 1..Len(out) : \A j \in i..Len(out) :
        out[i].kind = tokenEOF => out[j].kind = tokenEOF

(* C26: the token channel is closed at most once.  Once it is closed it    *)
(* stays closed, and every later call of nextToken takes the receive of    *)
(* the select and returns the zero token: the branch that executes         *)
(* close(l.tokens) and returns tokenEOF is never taken again.              *)
C26_ClosedOnce ==
    [][closed =>
          /\ closed'
          /\ out' = Append(out, ZeroToken)
          /\ state' = "nil"]_vars

\* nextToken has been called after the channel was closed
C26_Witness == closed /\ drained = MaxClosedReads

\* a state function is about to be invoked, on an input without `(;`
Invoked == ~HasBlockOpen(input) /\ Runs(state) /\ state # "nil"

\* the state functions lexDefault hands over to after backing up
handedOver == {"lexNumber", "lexIdentifier", "lexKeyword"}

(* C27, as claimed: on an input without `(;` every invocation of a state   *)
(* function leaves pos greater than it found it or leaves the state nil.   *)
C27_EveryInvocationConsumes ==
    Invoked =>
        LET res == StateFn(state, input, Lx)
        IN  res.l.pos > pos \/ res.state = "nil"

(* C27, amended: on an input without `(;` scanning terminates.  An         *)
(* invocation of a state function never moves pos back, and it leaves pos  *)
(* greater, or halts the machine, or is lexDefault backing up over a sign, *)
(* digit, `$` or lower-case letter and returning, with nothing sent,       *)
(* lexNumber, lexIdentifier or lexKeyword; each of these three leaves pos  *)
(* greater.  So pos grows at least every second invocation, and the tokens *)
(* returned before the first end-of-input or error token number at most    *)
(* len(input).                                                             *)
C27_ScanTerminates ==
    /\ Invoked =>
          LET res == StateFn(state, input, Lx)
          IN  /\ res.l.pos >= pos
              /\ \/ res.l.pos > pos
                 \/ res.state = "nil"
                 \/ /\ state = "lexDefault"
                    /\ res.state \in handedOver
                    /\ res.l.tokens = <<>>
              /\ state \in handedOver => res.l.pos > pos
    /\ ~HasBlockOpen(input) =>
          \A i \in 1..Len(out) :
              (\A j \in 1..i : out[j].kind \notin {tokenEOF, tokenError}) =>
                  i <= Len(input)

\* lexDefault has backed up and handed over to lexNumber without consuming
C27_Witness ==
    /\ Invoked
    /\ state = "lexNumber"
    /\ pos = 0
    /\ out = <<>>

(* C28: every number token the scanner emits contains at least one digit;  *)
(* a sign that is not followed by a digit is not emitted as a number       *)
(* token.                                                                  *)
C28_NumberHasDigit ==
    \A i \in 1..Len(out) :
        out[i].kind = tokenNumber =>
            \E j \in 1..Len(out[i].val) : out[i].val[j] \in digit

\* the lexer l of the input inp has 0 <= start <= pos <= len(input)
InBounds(inp, l) == 0 <= l.start /\ l.start <= l.pos /\ l.pos <= Len(inp)

(* C29: in every reachable lexer state 0 <= start <= pos <= len(input).    *)
(* It holds between the invocations of the state functions and between the *)
(* iterations of lexBlockComment, and also of the lexer after a next, a    *)
(* peek, and a next that is backed up, made in such a state; so the slice  *)
(* input[start:pos] that emit and lexeme take is in bounds.                *)
C29_PosInBounds ==
    /\ InBounds(input, Lx)
    /\ width >= 0
    /\ InBounds(input, next(input, Lx).l)
    /\ InBounds(input, peek(input, Lx).l)
    /\ InBounds(input, backup(next(input, Lx).l))

\* a token has been emitted and the lexer has read on to the end of the input
C29_Witness == 0 < start /\ start < pos /\ pos = Len(input) /\ state = "lexComment"

====
